---- MODULE Spec2Model ----
(***************************************************************************)
(* Model of src/app.py: a Flask application with two POST handlers,        *)
(* next_question and generate_report, in front of one external             *)
(* text-generation client (google.genai).                                  *)
(*                                                                         *)
(* Text is modelled as Python builds it: an f-string is the sequence of    *)
(* its literal parts and its formatted values ("chunks"), and Text(chunks) *)
(* is the string that results.  The long fixed parts of the two system     *)
(* prompts are abridged with "[...]"; every interpolation point is kept.   *)
(***************************************************************************)
EXTENDS Integers, Sequences, FiniteSets, TLC

\* Bounds of the model.
NumRequests == 2      \* request slots (threads of the server)
MaxHist == 2          \* longest history list a request carries
MaxOptions == 4       \* most options the model puts in one structured answer

VARIABLES client, pc, request, sys_prompt, user_context, sent, result, log, response

vars == <<client, pc, request, sys_prompt, user_context, sent, result, log, response>>

Requests == 1..NumRequests

MODEL_NAME == "gemini-2.5-pro"
FLASH_MODEL == "gemini-2.5-flash"

(***************************************************************************)
(* JSON values.  Every scalar has the same three fields so that values of  *)
(* different JSON types can be compared.                                   *)
(***************************************************************************)
Str(s) == [t |-> "str", s |-> s, i |-> 0]
Num(i) == [t |-> "int", s |-> "", i |-> i]
Null == [t |-> "null", s |-> "", i |-> 0]

\* str(v), as an f-string applies it to an interpolated value.
Format(v) ==
  CASE v.t = "str" -> v.s
    [] v.t = "int" -> ToString(v.i)
    [] v.t = "null" -> "None"

\* A history item: a JSON object with some of the keys question and answer,
\* or a JSON value that is no object.
Dict(has, q, a) == [t |-> "dict", has |-> has, question |-> Str(q), answer |-> Str(a)]
NonDict == [t |-> "int", has |-> {}, question |-> Null, answer |-> Null]

ItemA == Dict({"question", "answer"}, "Where have you studied?", "Delhi University")
ItemB == Dict({"question", "answer"}, "What is your current salary?", "Not working yet")
ItemNoAnswer == [t |-> "dict", has |-> {"question"},
                 question |-> Str("What package do you want?"), answer |-> Null]

QAItems == {ItemA, ItemB}
Items == QAItems \cup {ItemNoAnswer, NonDict}

\* The value of the history key: a JSON array, null or a number.
List(items) == [t |-> "list", i |-> 0, items |-> items]
HistNull == [t |-> "null", i |-> 0, items |-> <<>>]
HistNum(i) == [t |-> "int", i |-> i, items |-> <<>>]

SeqsUpTo(S, n) == UNION {[1..k -> S] : k \in 0..n}

HistoryValues ==
  {List(s) : s \in SeqsUpTo(Items, MaxHist)} \cup {HistNull, HistNum(0), HistNum(5)}

FieldNames == {"language", "name", "age", "gender", "history"}

\* A parsed JSON object: has is the set of keys present.  A key that is
\* absent holds a fixed filler that no operation reads.
Object(has, language, name, age, gender, history) ==
  [t |-> "object", has |-> has,
   language |-> IF "language" \in has THEN language ELSE Null,
   name |-> IF "name" \in has THEN name ELSE Null,
   age |-> IF "age" \in has THEN age ELSE Null,
   gender |-> IF "gender" \in has THEN gender ELSE Null,
   history |-> IF "history" \in has THEN history ELSE HistNull]

\* A body that is no JSON object: a JSON array, JSON null, or bytes that are
\* no JSON document at all ("invalid").
Other(t) ==
  [t |-> t, has |-> {}, language |-> Null, name |-> Null, age |-> Null,
   gender |-> Null, history |-> HistNull]

Objects(histories) ==
  {Object(has, Str("Hindi"), Str("Asha"), age, Str("Female"), h) :
     has \in SUBSET FieldNames, age \in {Num(25), Null}, h \in histories}

Bodies == Objects(HistoryValues) \cup {Other("array"), Other("null"), Other("invalid")}

\* The bodies of the concurrent specification: a few, so that the product
\* of the request slots stays small.
FewBodies ==
  {Object({}, Null, Null, Null, Null, HistNull),
   Object(FieldNames, Str("Hindi"), Str("Asha"), Num(25), Str("Female"), List(<<ItemA>>)),
   Other("array")}

Endpoints == {"/api/next_question", "/api/generate_report"}

\* An HTTP request: json_mimetype says whether the Content-Type header names
\* a JSON media type.
HttpRequests(bodies) ==
  [endpoint : Endpoints, json_mimetype : BOOLEAN, body : bodies]

NoRequest == [endpoint |-> "", json_mimetype |-> FALSE, body |-> Other("none")]

(***************************************************************************)
(* Flask's request API.                                                    *)
(***************************************************************************)
\* request.is_json: decided by the Content-Type header alone.
is_json(req) == req.json_mimetype

\* Faulty variant: get_json(silent=True), which never raises.
get_json_silent(req) == FALSE

\* request.get_json() raises BadRequest when the bytes are no JSON document.
get_json_raises(req) == req.body.t = "invalid"

\* dict.get(key, default)
Get(data, key, default) == IF key \in data.has THEN data[key] ELSE default

\* Python truthiness of the history value: "not history".
Falsy(history) ==
  \/ history.t = "null"
  \/ history.t = "int" /\ history.i = 0
  \/ history.t = "list" /\ Len(history.items) = 0

\* item['question'] or item['answer'] raises (TypeError on a value that is
\* no dict, KeyError on a missing key).
ItemRaises(item) ==
  \/ item.t # "dict"
  \/ "question" \notin item.has
  \/ "answer" \notin item.has

\* "for item in history" with the f-string of its body raises (TypeError on
\* a value that cannot be iterated, or the first item that raises).
LoopRaises(history) ==
  \/ history.t # "list"
  \/ \E k \in 1..Len(history.items) : ItemRaises(history.items[k])

\* f"Q: {item['question']}\nA: {item['answer']}\n"
QALine(item) == <<"Q: ", Format(item.question), "\nA: ", Format(item.answer), "\n">>

\* Faulty variant: the loop prepends each line instead of appending it.
RECURSIVE HistoryLinesReversed(_)
HistoryLinesReversed(items) ==
  IF items = <<>> THEN <<>> ELSE HistoryLinesReversed(Tail(items)) \o QALine(Head(items))

\* The for loop over the history: user_context += QALine(item), in order.
RECURSIVE HistoryLines(_)
HistoryLines(items) ==
  IF items = <<>> THEN <<>> ELSE QALine(Head(items)) \o HistoryLines(Tail(items))

RECURSIVE Text(_)
Text(chunks) == IF chunks = <<>> THEN "" ELSE Head(chunks) \o Text(Tail(chunks))

(***************************************************************************)
(* next_question: the values read from the body and the two prompts.       *)
(***************************************************************************)
NQ_language(data) == Get(data, "language", Str("English"))
NQ_name(data) == Get(data, "name", Str("User"))
NQ_age(data) == Get(data, "age", Num(18))
NQ_gender(data) == Get(data, "gender", Str("Other"))
NQ_history(data) == Get(data, "history", List(<<>>))

NQ_sys_prompt(data) ==
  <<"ROLE:\nYou are an ELITE, highly experienced career counselor [...]\n\nThe user profile: Name: ",
    Format(NQ_name(data)), ", Age: ", Format(NQ_age(data)),
    ", Gender: ", Format(NQ_gender(data)),
    ", Preferred Language: ", Format(NQ_language(data)),
    ".\n\nPHASE 1: THE INTERVIEW LOOP\n[...]\n- LANGUAGE REQUIREMENT: You MUST generate the question and the options strictly in ",
    Format(NQ_language(data)), ".\n">>

NQ_first_question ==
  "No questions asked yet. This is Question 1. Ask about their current life status or immediate goal.\n"

\* Faulty variant: the empty-history branch is missing.
NQ_user_context_no_branch(history) ==
  <<"Q&A History so far:\n">> \o HistoryLines(history.items)
  \o <<"\nThis is Question ", ToString(Len(history.items) + 1),
       ". Based on the above, ask the NEXT logical question to dig deeper.">>

NQ_user_context(history) ==
  IF Falsy(history)
  THEN <<"Q&A History so far:\n", NQ_first_question>>
  ELSE <<"Q&A History so far:\n">> \o HistoryLines(history.items)
       \o <<"\nThis is Question ", ToString(Len(history.items) + 1),
            ". Based on the above, ask the NEXT logical question to dig deeper.">>

\* An exception escapes next_question before its try block.
NQ_raises(data) ==
  \/ data.t # "object"
  \/ ~Falsy(NQ_history(data)) /\ LoopRaises(NQ_history(data))

(***************************************************************************)
(* generate_report: the values read from the body and the two prompts.     *)
(***************************************************************************)
GR_name(data) == Get(data, "name", Str("User"))
GR_age(data) == Get(data, "age", Null)
GR_gender(data) == Get(data, "gender", Null)
GR_history(data) == Get(data, "history", List(<<>>))
GR_language(data) == Get(data, "language", Str("English"))

GR_sys_prompt(data) ==
  <<"ROLE:\nYou are an ELITE, highly experienced career counselor [...]\n\nThe user profile: ",
    Format(GR_name(data)), ", ", Format(GR_age(data)),
    " years old, gender: ", Format(GR_gender(data)),
    ", Preferred Language: ", Format(GR_language(data)),
    ".\n\nPHASE 2: THE FINAL PREMIUM REPORT GENERATION\n[...]\n- LANGUAGE REQUIREMENT: You MUST generate the report content strictly in ",
    Format(GR_language(data)), ".\n[...]">>

GR_user_context(history) ==
  <<"User's Q&A History:\n">> \o HistoryLines(history.items)
  \o <<"\nGenerate the final counseling report and course pitch.">>

\* An exception escapes generate_report before its try block.
GR_raises(data) ==
  \/ data.t # "object"
  \/ LoopRaises(GR_history(data))

(***************************************************************************)
(* The external ModelClient: what client.models.generate_content can do.   *)
(***************************************************************************)
\* opts joined as the elements of a JSON array of strings.
RECURSIVE JoinOptions(_)
JoinOptions(opts) ==
  IF opts = <<>> THEN ""
  ELSE "\"" \o Head(opts) \o "\"" \o (IF Len(opts) > 1 THEN ", " ELSE "")
       \o JoinOptions(Tail(opts))

\* The JSON document of a QuestionResponse object.
QuestionResponse(question, options) ==
  "{\"question\": \"" \o question \o "\", \"options\": [" \o JoinOptions(options) \o "]}"

OptionList(n) == [k \in 1..n |-> "Option " \o ToString(k)]

\* Texts the model can return under response_schema=QuestionResponse: the
\* schema fixes the field types, and puts no bound on the number of options.
QuestionTexts ==
  {QuestionResponse("Where have you studied?", OptionList(n)) : n \in 1..MaxOptions}

\* Texts the model can return for the report: free-form.
ReportTexts ==
  {"<h1>EASYSKILL CAREER ACADEMY</h1><h2>1. Executive Profile Snapshot</h2>",
   "<!DOCTYPE html>\n<html><body><h1>EASYSKILL CAREER ACADEMY</h1></body></html>"}

ModelTexts(endpoint) ==
  IF endpoint = "/api/next_question" THEN QuestionTexts ELSE ReportTexts

\* str(e) of the exceptions generate_content can raise.
Exceptions == {"429 RESOURCE_EXHAUSTED", "503 UNAVAILABLE"}

\* str(e) of the AttributeError raised by client.models when client is None.
NoClientError == "'NoneType' object has no attribute 'models'"

(***************************************************************************)
(* HTTP responses.                                                         *)
(***************************************************************************)
NoResponse ==
  [status |-> 0, mimetype |-> "", body |-> [t |-> "none", key |-> "", value |-> ""]]

\* Response(text, mimetype=...): the text is the body, byte for byte.
RawResponse(text, mimetype) ==
  [status |-> 200, mimetype |-> mimetype, body |-> [t |-> "raw", key |-> "", value |-> text]]

\* jsonify({key: value}), status: a JSON object with one string member.
jsonify(key, value, status) ==
  [status |-> status, mimetype |-> "application/json",
   body |-> [t |-> "json", key |-> key, value |-> value]]

\* werkzeug's BadRequest, raised by the handler or by get_json().
BadRequest(description) ==
  [status |-> 400, mimetype |-> "text/html",
   body |-> [t |-> "html", key |-> "", value |-> description]]

\* Flask's answer to an exception that escapes a view function.
InternalServerError ==
  [status |-> 500, mimetype |-> "text/html",
   body |-> [t |-> "html", key |-> "", value |-> "Internal Server Error"]]

ErrorMessage(endpoint) ==
  IF endpoint = "/api/next_question"
  THEN "Failed to calculate next question."
  ELSE "Failed to generate report."

\* Faulty variant: the except branch reports str(e) to the caller.
ErrorResponseWithDetail(endpoint, e) ==
  jsonify("error", ErrorMessage(endpoint) \o " " \o e, 500)

\* The except branch's return value; e is the exception caught.
ErrorResponse(endpoint, e) == jsonify("error", ErrorMessage(endpoint), 500)

\* Faulty variant: next_question wraps the text as it does for the report.
SuccessResponseWrapped(endpoint, text) ==
  IF endpoint = "/api/next_question"
  THEN jsonify("question", text, 200)
  ELSE jsonify("report", text, 200)

\* The try block's return value; text is response.text.
SuccessResponse(endpoint, text) ==
  IF endpoint = "/api/next_question"
  THEN RawResponse(text, "application/json")
  ELSE jsonify("report", text, 200)

\* logger.error(...) of the except branch.
LogLine(endpoint, e) ==
  IF endpoint = "/api/next_question"
  THEN "Error in Gemini next_question: " \o e
  ELSE "Error generating report: " \o e

\* The arguments of client.models.generate_content.
NoResult == [kind |-> "none", value |-> ""]

NQ_call(sp, uc) ==
  [model |-> FLASH_MODEL, contents |-> Text(uc), system_instruction |-> Text(sp),
   temperature |-> "0.6", response_mime_type |-> "application/json",
   response_schema |-> "QuestionResponse", max_output_tokens |-> 0]

GR_call(sp, uc) ==
  [model |-> MODEL_NAME, contents |-> Text(uc), system_instruction |-> Text(sp),
   temperature |-> "0.4", response_mime_type |-> "",
   response_schema |-> "", max_output_tokens |-> 8192]

(***************************************************************************)
(* The state machine.                                                      *)
(***************************************************************************)
\* Module import: the client is built once, or is None when that raised.
Init ==
  /\ client \in {"Client", "None"}
  /\ pc = [r \in Requests |-> "idle"]
  /\ request = [r \in Requests |-> NoRequest]
  /\ sys_prompt = [r \in Requests |-> <<>>]
  /\ user_context = [r \in Requests |-> <<>>]
  /\ sent = [r \in Requests |-> <<>>]
  /\ result = [r \in Requests |-> NoResult]
  /\ log = [r \in Requests |-> <<>>]
  /\ response = [r \in Requests |-> NoResponse]

\* The handler returns (or raises) without reaching its try block.
Reply(r, req, resp) ==
  /\ request' = [request EXCEPT ![r] = req]
  /\ response' = [response EXCEPT ![r] = resp]
  /\ pc' = [pc EXCEPT ![r] = "done"]
  /\ UNCHANGED <<client, sys_prompt, user_context, sent, result, log>>

\* The try block: with no client the attribute lookup raises and the except
\* branch answers; with a client the call goes out and the thread waits.
Try(r, req, sp, uc, call) ==
  /\ request' = [request EXCEPT ![r] = req]
  /\ sys_prompt' = [sys_prompt EXCEPT ![r] = sp]
  /\ user_context' = [user_context EXCEPT ![r] = uc]
  /\ IF client = "None"
     THEN /\ result' = [result EXCEPT ![r] = [kind |-> "exception", value |-> NoClientError]]
          /\ log' = [log EXCEPT ![r] = Append(@, LogLine(req.endpoint, NoClientError))]
          /\ response' = [response EXCEPT ![r] = ErrorResponse(req.endpoint, NoClientError)]
          /\ pc' = [pc EXCEPT ![r] = "done"]
          /\ UNCHANGED <<client, sent>>
     ELSE /\ sent' = [sent EXCEPT ![r] = Append(@, call)]
          /\ pc' = [pc EXCEPT ![r] = "calling"]
          /\ UNCHANGED <<client, result, log, response>>

\* POST /api/next_question, up to the call of the ModelClient.
next_question(r, req) ==
  /\ pc[r] = "idle"
  /\ req.endpoint = "/api/next_question"
  /\ IF ~is_json(req)
     THEN Reply(r, req, BadRequest("Invalid request format. Expected JSON."))
     ELSE IF get_json_raises(req)
     THEN Reply(r, req, BadRequest("Failed to decode JSON object"))
     ELSE IF NQ_raises(req.body)
     THEN Reply(r, req, InternalServerError)
     ELSE Try(r, req, NQ_sys_prompt(req.body), NQ_user_context(NQ_history(req.body)),
              NQ_call(NQ_sys_prompt(req.body), NQ_user_context(NQ_history(req.body))))

\* POST /api/generate_report, up to the call of the ModelClient.
generate_report(r, req) ==
  /\ pc[r] = "idle"
  /\ req.endpoint = "/api/generate_report"
  /\ IF ~is_json(req)
     THEN Reply(r, req, BadRequest("Invalid request format. Expected JSON."))
     ELSE IF get_json_raises(req)
     THEN Reply(r, req, BadRequest("Failed to decode JSON object"))
     ELSE IF GR_raises(req.body)
     THEN Reply(r, req, InternalServerError)
     ELSE Try(r, req, GR_sys_prompt(req.body), GR_user_context(GR_history(req.body)),
              GR_call(GR_sys_prompt(req.body), GR_user_context(GR_history(req.body))))

\* generate_content returns: the handler answers with response.text.
generate_content_returns(r, text) ==
  /\ pc[r] = "calling"
  /\ text \in ModelTexts(request[r].endpoint)
  /\ result' = [result EXCEPT ![r] = [kind |-> "text", value |-> text]]
  /\ response' = [response EXCEPT ![r] = SuccessResponse(request[r].endpoint, text)]
  /\ pc' = [pc EXCEPT ![r] = "done"]
  /\ UNCHANGED <<client, request, sys_prompt, user_context, sent, log>>

\* Faulty variant: the except branch calls generate_content once more.
generate_content_raises_retry(r, e) ==
  /\ pc[r] = "calling"
  /\ Len(sent[r]) = 1
  /\ log' = [log EXCEPT ![r] = Append(@, LogLine(request[r].endpoint, e))]
  /\ sent' = [sent EXCEPT ![r] = Append(@, sent[r][1])]
  /\ UNCHANGED <<client, pc, request, sys_prompt, user_context, result, response>>

\* Faulty variant: the except branch drops the module-level client.
generate_content_raises_drops_client(r, e) ==
  /\ pc[r] = "calling"
  /\ client' = "None"
  /\ result' = [result EXCEPT ![r] = [kind |-> "exception", value |-> e]]
  /\ log' = [log EXCEPT ![r] = Append(@, LogLine(request[r].endpoint, e))]
  /\ response' = [response EXCEPT ![r] = ErrorResponse(request[r].endpoint, e)]
  /\ pc' = [pc EXCEPT ![r] = "done"]
  /\ UNCHANGED <<request, sys_prompt, user_context, sent>>

\* generate_content raises: the except branch logs and answers.
generate_content_raises(r, e) ==
  /\ pc[r] = "calling"
  /\ result' = [result EXCEPT ![r] = [kind |-> "exception", value |-> e]]
  /\ log' = [log EXCEPT ![r] = Append(@, LogLine(request[r].endpoint, e))]
  /\ response' = [response EXCEPT ![r] = ErrorResponse(request[r].endpoint, e)]
  /\ pc' = [pc EXCEPT ![r] = "done"]
  /\ UNCHANGED <<client, request, sys_prompt, user_context, sent>>

AllTexts == QuestionTexts \cup ReportTexts

\* One request at a time, over every body of the model.
Alone(r) == \A q \in Requests \ {r} : pc[q] = "idle"

Next ==
  \E r \in Requests :
    \/ Alone(r) /\ pc[r] = "idle" /\ \E req \in HttpRequests(Bodies) : next_question(r, req)
    \/ Alone(r) /\ pc[r] = "idle" /\ \E req \in HttpRequests(Bodies) : generate_report(r, req)
    \/ \E text \in AllTexts : generate_content_returns(r, text)
    \/ \E e \in Exceptions : generate_content_raises(r, e)

Spec == Init /\ [][Next]_vars

\* Requests of all slots interleaved, over a few bodies.
NextConc ==
  \E r \in Requests :
    \/ pc[r] = "idle" /\ \E req \in HttpRequests(FewBodies) : next_question(r, req)
    \/ pc[r] = "idle" /\ \E req \in HttpRequests(FewBodies) : generate_report(r, req)
    \/ \E text \in AllTexts : generate_content_returns(r, text)
    \/ \E e \in Exceptions : generate_content_raises(r, e)

SpecConc == Init /\ [][NextConc]_vars

(***************************************************************************)
(* Vocabulary of the properties.                                           *)
(***************************************************************************)
IsNextQuestion(r) == request[r].endpoint = "/api/next_question"
IsGenerateReport(r) == request[r].endpoint = "/api/generate_report"

\* The request did not carry JSON: its Content-Type names no JSON media
\* type, or its bytes are no JSON document.
NotJson(req) == ~req.json_mimetype \/ req.body.t = "invalid"

\* The handler of request r has built its two prompts.
Built(r) == sys_prompt[r] # <<>>

\* The number of calls of the ModelClient made for request r.
Calls(r) == Len(sent[r])

\* The history list the body of request r supplies (empty when it supplies
\* none, or a value that is no list).
HistoryItems(r) ==
  IF "history" \in request[r].body.has /\ request[r].body.history.t = "list"
  THEN request[r].body.history.items
  ELSE <<>>

\* The question/answer pairs read back from a context: every run of chunks
\* "Q: ", q, "\nA: ", a, "\n", in order of appearance.
RECURSIVE PairsFrom(_, _)
PairsFrom(c, k) ==
  IF k > Len(c) THEN <<>>
  ELSE IF c[k] = "Q: " /\ k + 4 <= Len(c) /\ c[k + 2] = "\nA: " /\ c[k + 4] = "\n"
       THEN <<(<<c[k + 1], c[k + 3]>>)>> \o PairsFrom(c, k + 5)
       ELSE PairsFrom(c, k + 1)

PairsOf(c) == PairsFrom(c, 1)

(***************************************************************************)
(* C1: on both endpoints a request that does not carry JSON ends in a      *)
(* 400-class response, and the ModelClient is never called for it.         *)
(***************************************************************************)
C1_NonJsonIsClientError ==
  \A r \in Requests :
    pc[r] # "idle" /\ NotJson(request[r]) =>
      /\ pc[r] = "done"
      /\ response[r].status >= 400 /\ response[r].status <= 499
      /\ Calls(r) = 0
      /\ result[r] = NoResult

C1_Witness ==
  \E r \in Requests :
    /\ pc[r] = "done"
    /\ request[r].json_mimetype /\ request[r].body.t = "invalid"
    /\ response[r].status = 400

(***************************************************************************)
(* C2: when the ModelClient call fails (the client being None included),   *)
(* the response is 500 with the JSON body {error: M}, M the fixed message  *)
(* of the endpoint, and nothing of the exception is in it.                 *)
(***************************************************************************)
C2_UpstreamFailureIsGeneric ==
  \A r \in Requests :
    result[r].kind = "exception" =>
      /\ pc[r] = "done"
      /\ response[r].status = 500
      /\ response[r].mimetype = "application/json"
      /\ response[r].body =
           [t |-> "json", key |-> "error",
            value |-> IF IsNextQuestion(r) THEN "Failed to calculate next question."
                      ELSE "Failed to generate report."]

C2_Witness ==
  \E r \in Requests :
    /\ IsGenerateReport(r) /\ Calls(r) = 1
    /\ result[r] = [kind |-> "exception", value |-> "503 UNAVAILABLE"]
    /\ response[r].status = 500

(***************************************************************************)
(* C3: on either endpoint every optional field missing from a JSON object  *)
(* body takes its documented default in the prompt (language "English",    *)
(* name "User", age 18, gender "Other", history empty), and every field    *)
(* present is used with the value supplied.                                *)
(***************************************************************************)
C3_Expected(r, field, default) ==
  IF field \in request[r].body.has THEN Format(request[r].body[field]) ELSE default

C3_DefaultsOnBothEndpoints ==
  \A r \in Requests :
    Built(r) =>
      /\ sys_prompt[r][2] = C3_Expected(r, "name", "User")
      /\ sys_prompt[r][4] = C3_Expected(r, "age", "18")
      /\ sys_prompt[r][6] = C3_Expected(r, "gender", "Other")
      /\ sys_prompt[r][8] = C3_Expected(r, "language", "English")
      /\ sys_prompt[r][10] = C3_Expected(r, "language", "English")
      /\ Len(PairsOf(user_context[r])) = Len(HistoryItems(r))

(***************************************************************************)
(* C4: on either endpoint the user context holds exactly one               *)
(* "Q: <question>\nA: <answer>\n" pair per history item, in the order of   *)
(* the request, none dropped, duplicated or reordered.                     *)
(***************************************************************************)
C4_HistoryPairsInOrder ==
  \A r \in Requests :
    Built(r) =>
      PairsOf(user_context[r]) =
        [k \in 1..Len(HistoryItems(r)) |->
           <<HistoryItems(r)[k].question.s, HistoryItems(r)[k].answer.s>>]

C4_Witness ==
  \E r \in Requests :
    /\ Built(r) /\ IsGenerateReport(r)
    /\ HistoryItems(r) = <<ItemB, ItemA>>
    /\ Len(PairsOf(user_context[r])) = 2

(***************************************************************************)
(* C5: when the ModelClient call succeeds on /api/next_question, the       *)
(* response body validates against QuestionResponse: a string question and *)
(* 3 to 4 string options.                                                  *)
(***************************************************************************)
C5_ValidDocuments ==
  {QuestionResponse("Where have you studied?", OptionList(n)) : n \in 3..4}

C5_ResponseHasThreeToFourOptions ==
  \A r \in Requests :
    IsNextQuestion(r) /\ result[r].kind = "text" =>
      response[r].body.value \in C5_ValidDocuments

(***************************************************************************)
(* C6: every request with a JSON body ends in 200 with the success payload *)
(* or in 500 with the endpoint's fixed JSON error, the latter exactly when *)
(* the ModelClient call failed; no JSON body leads to an unhandled failure *)
(* or to any other response.                                               *)
(***************************************************************************)
C6_OnlyTwoOutcomes ==
  \A r \in Requests :
    pc[r] = "done" /\ ~NotJson(request[r]) =>
      \/ /\ result[r].kind = "text"
         /\ response[r].status = 200
         /\ response[r].body.t \in {"raw", "json"}
      \/ /\ result[r].kind = "exception"
         /\ response[r].status = 500
         /\ response[r].body.t = "json" /\ response[r].body.key = "error"

(***************************************************************************)
(* C7: when the ModelClient call succeeds the generated text is passed     *)
(* through unmodified: /api/next_question answers 200, JSON content type,  *)
(* the body being the text; /api/generate_report answers 200 with the JSON *)
(* body {report: text}.                                                    *)
(***************************************************************************)
C7_TextPassedThrough ==
  \A r \in Requests :
    result[r].kind = "text" =>
      /\ pc[r] = "done"
      /\ response[r].status = 200
      /\ response[r].mimetype = "application/json"
      /\ response[r].body.value = result[r].value
      /\ IsNextQuestion(r) => response[r].body.t = "raw"
      /\ IsGenerateReport(r) => response[r].body.t = "json" /\ response[r].body.key = "report"

C7_Witness ==
  \E r \in Requests :
    /\ IsGenerateReport(r) /\ pc[r] = "done"
    /\ result[r].kind = "text"
    /\ response[r].body.value = "<!DOCTYPE html>\n<html><body><h1>EASYSKILL CAREER ACADEMY</h1></body></html>"

(***************************************************************************)
(* C8: for POST /api/next_question with body {"history": []} the context   *)
(* string passed to the ModelClient.                                       *)
(***************************************************************************)
C8_Case(r) ==
  /\ IsNextQuestion(r) /\ Built(r)
  /\ request[r].body.has = {"history"}
  /\ request[r].body.history = List(<<>>)

\* C8 as stated: the context string equals the first-question sentence.
C8_ContextIsFirstQuestionSentence ==
  \A r \in Requests :
    C8_Case(r) =>
      Text(user_context[r]) =
        "No questions asked yet. This is Question 1. Ask about their current life status or immediate goal.\n"

\* C8 as amended: the context string is the heading line "Q&A History so
\* far:\n" followed by the first-question sentence, and that string is what
\* the call carries.
C8_ContextIsHeadingThenFirstQuestion ==
  \A r \in Requests :
    C8_Case(r) =>
      /\ Text(user_context[r]) =
           "Q&A History so far:\nNo questions asked yet. This is Question 1. Ask about their current life status or immediate goal.\n"
      /\ \A k \in 1..Calls(r) : sent[r][k].contents = Text(user_context[r])

C8_Witness ==
  \E r \in Requests : C8_Case(r) /\ Calls(r) = 1

(***************************************************************************)
(* C9: a request that passes the JSON check makes at most one ModelClient  *)
(* call, no call follows a failed call or the response, and the number of  *)
(* calls once the prompts are built.                                       *)
(***************************************************************************)
\* C9 as stated: exactly one call whenever prompt construction completed.
C9_ExactlyOneCallOncePromptBuilt ==
  \A r \in Requests :
    /\ Calls(r) <= 1
    /\ Built(r) => Calls(r) = 1

\* C9 as amended: at most one call; exactly one when prompt construction
\* completed and the client was initialised, none when the client is None;
\* once the call failed or the response is sent, no further call.
C9_Step ==
  \A r \in Requests :
    /\ Calls(r)' <= 1
    /\ Built(r)' => Calls(r)' = (IF client = "Client" THEN 1 ELSE 0)
    /\ pc[r] = "done" => pc'[r] = "done" /\ sent'[r] = sent[r]
    /\ result'[r].kind = "exception" => pc'[r] = "done" /\ Calls(r)' <= Calls(r)

C9_AtMostOneCallNoRetry == [][C9_Step]_vars

C9_Witness ==
  \E r \in Requests :
    pc[r] = "done" /\ result[r].kind = "exception" /\ Calls(r) = 1

(***************************************************************************)
(* C10: under any interleaving no handler writes state shared between      *)
(* requests, so the prompts built for a request and its response depend    *)
(* only on its own body and the outcome of its own ModelClient call.       *)
(***************************************************************************)
C10_Isolated ==
  \A r1, r2 \in Requests :
    request[r1] = request[r2] /\ pc[r1] # "idle" =>
      /\ pc[r1] = "calling" /\ pc[r2] = "calling" =>
           /\ sys_prompt[r1] = sys_prompt[r2]
           /\ user_context[r1] = user_context[r2]
           /\ sent[r1] = sent[r2]
      /\ pc[r1] = "done" /\ pc[r2] = "done" /\ result[r1] = result[r2] =>
           /\ sys_prompt[r1] = sys_prompt[r2]
           /\ user_context[r1] = user_context[r2]
           /\ sent[r1] = sent[r2]
           /\ response[r1] = response[r2]

C10_NoSharedWrites == [][client' = client /\ C10_Isolated']_vars

C10_Witness ==
  \E r1, r2 \in Requests :
    /\ r1 # r2 /\ request[r1] = request[r2]
    /\ pc[r1] = "done" /\ result[r1].kind = "text"
    /\ pc[r2] = "calling"

====
